---------------------------- MODULE Spec2Model ----------------------------
(***************************************************************************)
(* Model of the CBA workbook generator (src/cba_generator.py) and of the   *)
(* workbook it emits.  Text is a sequence of one-character strings, so     *)
(* that strip(), lower(), the rating regular expression and bulletize()    *)
(* are computed character by character as the source computes them.  The   *)
(* characters U+2013, U+2014 and U+2022 are written "ndash", "mdash" and   *)
(* "bullet".  Cell formulas are records naming the cells they refer to;    *)
(* the spreadsheet engine's evaluation of them is modelled in exact        *)
(* rational arithmetic (a fraction is a record [n, d] with d > 0).         *)
(***************************************************************************)
EXTENDS Integers, Sequences, FiniteSets, TLC

VARIABLES
    phase,      \* "idle" | "generated" | "failed" (workbook); "input" | "split" | "bulleted" (text)
    tpl,        \* the uploaded template: [labels, n, cells]  (df0 before line 119)
    wb,         \* the generated workbook: [matrix, wsw, summary, ...]
    raw,        \* a raw cell text handed to the text helpers
    out,        \* the helpers' results for raw
    app         \* the page: st.session_state, the form as submitted, what is shown

vars == <<phase, tpl, wb, raw, out, app>>

(***************************************************************************)
(*                         Bounds of the model                             *)
(***************************************************************************)
MaxPad == 1

MaxRows == 3

MaxOpts == 8

MaxAttrs == 3

EditOpts == 4

---------------------------------------------------------------------------
(***************************************************************************)
(*                              Text                                       *)
(***************************************************************************)
EmptyStr == <<>>

WS == {" ", "\n", "\t", "\r"}

Digits == {"0", "1", "2", "3", "4", "5", "6", "7", "8", "9"}

DigitVal == ("0" :> 0) @@ ("1" :> 1) @@ ("2" :> 2) @@ ("3" :> 3) @@ ("4" :> 4)
         @@ ("5" :> 5) @@ ("6" :> 6) @@ ("7" :> 7) @@ ("8" :> 8) @@ ("9" :> 9)

LowerLetters == <<"a", "b", "c", "d", "e", "f", "g", "h", "i", "j", "k", "l", "m", "n", "o", "p", "q", "r", "s", "t", "u", "v", "w", "x", "y", "z">>

UpperLetters == <<"A", "B", "C", "D", "E", "F", "G", "H", "I", "J", "K", "L", "M", "N", "O", "P", "Q", "R", "S", "T", "U", "V", "W", "X", "Y", "Z">>

ToLower == [c \in {UpperLetters[i] : i \in 1..26} |->
               LowerLetters[CHOOSE i \in 1..26 : UpperLetters[i] = c]]

ToUpper == [c \in {LowerLetters[i] : i \in 1..26} |->
               UpperLetters[CHOOSE i \in 1..26 : LowerLetters[i] = c]]

IsLetter(c) == c \in DOMAIN ToLower \/ c \in DOMAIN ToUpper

LowerCh(c) == IF c \in DOMAIN ToLower THEN ToLower[c] ELSE c

UpperCh(c) == IF c \in DOMAIN ToUpper THEN ToUpper[c] ELSE c

\* str.lower()
Lower(s) == [i \in 1..Len(s) |-> LowerCh(s[i])]

\* str.title(): a letter that follows a non-letter is upper-cased, any other lower-cased
Title(s) == [i \in 1..Len(s) |->
               IF i = 1 \/ ~IsLetter(s[i - 1]) THEN UpperCh(s[i]) ELSE LowerCh(s[i])]

RECURSIVE LStrip(_)
LStrip(s) == IF s # <<>> /\ Head(s) \in WS THEN LStrip(Tail(s)) ELSE s

RECURSIVE RStrip(_)
RStrip(s) == IF s # <<>> /\ s[Len(s)] \in WS THEN RStrip(SubSeq(s, 1, Len(s) - 1)) ELSE s

\* str.strip()
Strip(s) == RStrip(LStrip(s))

StartsWith(s, p) == Len(s) >= Len(p) /\ SubSeq(s, 1, Len(p)) = p

Drop(s, k) == SubSeq(s, k + 1, Len(s))

\* sub in s
Contains(s, sub) == \E i \in 1..(Len(s) - Len(sub) + 1) : SubSeq(s, i, i + Len(sub) - 1) = sub

\* s.replace(sub, rep): non-overlapping occurrences, left to right
RECURSIVE Replace(_, _, _)
Replace(s, sub, rep) ==
    IF s = <<>> THEN <<>>
    ELSE IF StartsWith(s, sub) THEN rep \o Replace(Drop(s, Len(sub)), sub, rep)
    ELSE <<Head(s)>> \o Replace(Tail(s), sub, rep)

\* s.split(sep) for a one-character sep: always at least one item
RECURSIVE SplitOn(_, _)
SplitOn(s, sep) ==
    IF ~(\E i \in 1..Len(s) : s[i] = sep) THEN <<s>>
    ELSE LET i == CHOOSE k \in 1..Len(s) : s[k] = sep /\ \A m \in 1..(k - 1) : s[m] # sep
         IN  <<SubSeq(s, 1, i - 1)>> \o SplitOn(Drop(s, i), sep)

\* sep.join(items)
RECURSIVE Join(_, _)
Join(items, sep) ==
    IF items = <<>> THEN <<>>
    ELSE IF Len(items) = 1 THEN items[1]
    ELSE items[1] \o sep \o Join(Tail(items), sep)

RECURSIVE Spaces(_)
Spaces(k) == IF k = 0 THEN <<>> ELSE <<" ">> \o Spaces(k - 1)

---------------------------------------------------------------------------
(***************************************************************************)
(*                    Configuration of the generator                       *)
(***************************************************************************)
Poor == <<"P", "o", "o", "r">>
Fair == <<"F", "a", "i", "r">>
Good == <<"G", "o", "o", "d">>
VeryGood == <<"V", "e", "r", "y", " ", "G", "o", "o", "d">>
Excellent == <<"E", "x", "c", "e", "l", "l", "e", "n", "t">>

RATING_WORDS == <<Poor, Fair, Good, VeryGood, Excellent>>

WORD_TO_NUM == (<<"p", "o", "o", "r">> :> 1) @@ (<<"f", "a", "i", "r">> :> 2) @@ (<<"g", "o", "o", "d">> :> 3)
            @@ (<<"v", "e", "r", "y", " ", "g", "o", "o", "d">> :> 4) @@ (<<"e", "x", "c", "e", "l", "l", "e", "n", "t">> :> 5)

---------------------------------------------------------------------------
(***************************************************************************)
(*                          bulletize                                      *)
(***************************************************************************)
BulletSeps == <<<<"\n">>, <<";">>, <<" ", "bullet", " ">>, <<" ", "-", " ">>, <<" ", "ndash", " ">>>>

BulletReplaced == <<<<";">>, <<" ", "bullet", " ">>, <<" ", "ndash", " ">>, <<" ", "-", " ">>>>

BulletMarkers == {"-", "bullet", "ndash"}

\* re.sub(r"^\s*[-(bullet)(ndash)]\s*", "", ln).strip()
CleanLine(ln) ==
    LET t == LStrip(ln)
    IN  IF t # <<>> /\ Head(t) \in BulletMarkers THEN Strip(Tail(t)) ELSE Strip(ln)

bulletize(text) ==
    LET s == Strip(text)
    IN  IF s = <<>> THEN <<>>
        ELSE IF \E k \in 1..Len(BulletSeps) : Contains(s, BulletSeps[k])
        THEN LET s0 == Replace(s, <<"\r">>, <<>>)
                 s1 == Replace(s0, BulletReplaced[1], <<"\n">>)
                 s2 == Replace(s1, BulletReplaced[2], <<"\n">>)
                 s3 == Replace(s2, BulletReplaced[3], <<"\n">>)
                 s4 == Replace(s3, BulletReplaced[4], <<"\n">>)
                 parts == SplitOn(s4, "\n")
                 cleaned == [i \in 1..Len(parts) |-> CleanLine(parts[i])]
                 lines == SelectSeq(cleaned, LAMBDA ln : ln # <<>>)
             IN  IF lines # <<>>
                 THEN <<"bullet", " ">> \o Join(lines, <<"\n", "bullet", " ">>)
                 ELSE s4
        ELSE s

---------------------------------------------------------------------------
(***************************************************************************)
(*                     split_rating_and_desc                               *)
(***************************************************************************)
RatingSeps == {":", "-", "ndash", "mdash"}

\* The rest of the pattern after group 1:  \s*(?:[:\-(ndash)(mdash)]\s*(.*))?$
\* "." matches no newline and "$" only the end of the (stripped) text.
TailMatches(t) ==
    LET t1 == LStrip(t)
    IN  \/ t1 = <<>>
        \/ /\ Head(t1) \in RatingSeps
           /\ ~Contains(LStrip(Tail(t1)), <<"\n">>)

\* m.group(2) or ""
TailGroup2(t) ==
    LET t1 == LStrip(t)
    IN  IF t1 = <<>> THEN <<>> ELSE LStrip(Tail(t1))

\* The lengths group 1 can take at the start of s, in the order the regular
\* expression tries them: very\s+good | excellent | good | fair | poor | \d(?:\.0)?
Group1Lens(s) ==
    LET low == Lower(s)
        afterVery == LStrip(Drop(low, 4))
        very == IF /\ StartsWith(low, <<"v", "e", "r", "y">>)
                   /\ Len(afterVery) < Len(low) - 4
                   /\ StartsWith(afterVery, <<"g", "o", "o", "d">>)
                THEN <<Len(low) - Len(afterVery) + 4>> ELSE <<>>
        word(w) == IF StartsWith(low, w) THEN <<Len(w)>> ELSE <<>>
        digit == IF s # <<>> /\ Head(s) \in Digits
                 THEN (IF StartsWith(Tail(s), <<".", "0">>) THEN <<3>> ELSE <<>>) \o <<1>>
                 ELSE <<>>
    IN  very \o word(<<"e", "x", "c", "e", "l", "l", "e", "n", "t">>) \o word(<<"g", "o", "o", "d">>) \o word(<<"f", "a", "i", "r">>)
             \o word(<<"p", "o", "o", "r">>) \o digit

\* _RATING_RE.match(s): [ok, g1, g2]
RATING_RE(s) ==
    LET lens == Group1Lens(s)
        fits == {k \in 1..Len(lens) : TailMatches(Drop(s, lens[k]))}
    IN  IF fits = {} THEN [ok |-> FALSE, g1 |-> <<>>, g2 |-> <<>>]
        ELSE LET k == CHOOSE x \in fits : \A y \in fits : x <= y
             IN  [ok |-> TRUE,
                  g1 |-> SubSeq(s, 1, lens[k]),
                  g2 |-> TailGroup2(Drop(s, lens[k]))]

\* ["", "Poor", "Fair", "Good", "Very Good", "Excellent"][int(float(rt))],
\* "" when float() or the index raises
RatingOfNumeral(rt) ==
    IF rt # <<>> /\ Head(rt) \in Digits /\ DigitVal[Head(rt)] \in 1..5
    THEN RATING_WORDS[DigitVal[Head(rt)]]
    ELSE <<>>

split_rating_and_desc(text) ==
    LET s == Strip(text)
        m == RATING_RE(s)
        rt == Lower(m.g1)
    IN  IF s = <<>> THEN [rating |-> <<>>, desc |-> <<>>]
        ELSE IF ~m.ok THEN [rating |-> <<>>, desc |-> s]
        ELSE [rating |-> IF rt \in DOMAIN WORD_TO_NUM
                         THEN (IF rt = <<"v", "e", "r", "y", " ", "g", "o", "o", "d">> THEN VeryGood ELSE Title(rt))
                         ELSE RatingOfNumeral(rt),
              desc |-> m.g2]

---------------------------------------------------------------------------
(***************************************************************************)
(*   generate_cba_from_uploaded_template: reading and classifying rows     *)
(***************************************************************************)
DESC_ROWS == { <<"i", "l", "l", "u", "s", "t", "r", "a", "t", "i", "o", "n">>, <<"d", "e", "s", "c", "r", "i", "p", "t", "i", "o", "n">>, <<"f", "e", "a", "s", "i", "b", "i", "l", "i", "t", "y">>, <<"a", "d", "v", "a", "n", "t", "a", "g", "e", "s">>,
               <<"d", "i", "s", "a", "d", "v", "a", "n", "t", "a", "g", "e", "s">>, <<"s", "c", "h", "e", "m", "e">> }

CONSID_ROWS == { <<"f", "o", "u", "n", "d", "a", "t", "i", "o", "n", " ", "i", "n", "s", "t", "a", "l", "l", "a", "t", "i", "o", "n", " ", "s", "c", "h", "e", "d", "u", "l", "e">>,
                 <<"i", "n", "s", "t", "a", "l", "l", "a", "t", "i", "o", "n", " ", "s", "c", "h", "e", "d", "u", "l", "e">>,
                 <<"e", "q", "u", "i", "p", "m", "e", "n", "t", "/", "s", "u", "b", "c", "o", "n", "t", "r", "a", "c", "t", "o", "r", "s", " ", "n", "e", "c", "e", "s", "s", "a", "r", "y", " ", "f", "o", "r", " ", "f", "o", "u", "n", "d", "a", "t", "i", "o", "n", "s">>,
                 <<"e", "q", "u", "i", "p", "m", "e", "n", "t", "/", "s", "u", "b", "c", "o", "n", "t", "r", "a", "c", "t", "o", "r", "s">>,
                 <<"s", "p", "o", "i", "l", "s", " ", "h", "a", "n", "d", "l", "i", "n", "g">>,
                 <<"c", "e", "r", "t", "a", "i", "n", "t", "y", " ", "o", "f", " ", "i", "m", "p", "r", "o", "v", "e", "m", "e", "n", "t">>,
                 <<"a", "u", "t", "h", "o", "r", "i", "t", "y", " ", "h", "a", "v", "i", "n", "g", " ", "j", "u", "r", "i", "s", "d", "i", "c", "t", "i", "o", "n", " ", "a", "p", "p", "r", "o", "v", "a", "l">>,
                 <<"n", "o", "i", "s", "e">>,
                 <<"v", "i", "b", "r", "a", "t", "i", "o", "n">>,
                 <<"c", "o", "s", "t">>,
                 <<"m", "a", "r", "k", "e", "t", " ", "c", "o", "m", "p", "e", "t", "i", "t", "i", "o", "n">>,
                 <<"m", "a", "r", "k", "e", "t", " ", "f", "a", "m", "i", "l", "i", "a", "r", "i", "t", "y">> }

NO_BULLET_ROWS == { <<"f", "e", "a", "s", "i", "b", "i", "l", "i", "t", "y">> }

hr == 4

map_col == 12

default_importance == 3

row_ill == 4

row_opt == 5

row_desc == 6

row_score == 7

row_summary == 8

\* lower = [x.strip().lower() for x in labels]
LowerLabels(labels) == [i \in 1..Len(labels) |-> Lower(Strip(labels[i]))]

InLower(key, labels) == \E i \in 1..Len(labels) : LowerLabels(labels)[i] = key

\* a variant that adds the synthetic row after the template's rows
EnsureIllustrationLast(t) ==
    IF InLower(<<"i", "l", "l", "u", "s", "t", "r", "a", "t", "i", "o", "n">>, t.labels) THEN t
    ELSE [labels |-> t.labels \o <<<<"I", "l", "l", "u", "s", "t", "r", "a", "t", "i", "o", "n">>>>,
          n |-> t.n,
          cells |-> t.cells \o <<[j \in 1..t.n |-> <<>>]>>]

\* df0 after "Ensure there is an Illustration row": rows are numbered from 1
EnsureIllustration(t) ==
    IF InLower(<<"i", "l", "l", "u", "s", "t", "r", "a", "t", "i", "o", "n">>, t.labels) THEN t
    ELSE [labels |-> <<<<"I", "l", "l", "u", "s", "t", "r", "a", "t", "i", "o", "n">>>> \o t.labels,
          n |-> t.n,
          cells |-> <<[j \in 1..t.n |-> <<>>]>> \o t.cells]

Indices(labels) == [i \in 1..Len(labels) |-> i]

desc_idx(labels) ==
    SelectSeq(Indices(labels), LAMBDA i : LowerLabels(labels)[i] \in DESC_ROWS)

consid_idx(labels) ==
    SelectSeq(Indices(labels), LAMBDA i : /\ LowerLabels(labels)[i] \notin DESC_ROWS
                                          /\ LowerLabels(labels)[i] \in CONSID_ROWS)

other_idx(labels) ==
    SelectSeq(Indices(labels), LAMBDA i : /\ LowerLabels(labels)[i] \notin DESC_ROWS
                                          /\ LowerLabels(labels)[i] \notin CONSID_ROWS)

\* order, flattened: the rows of the Description section, then those of
\* "Construction Considerations" (consid_idx + other_idx); is_cc is the section's test
SectionOrder(labels) ==
    LET d == desc_idx(labels)
        c == consid_idx(labels) \o other_idx(labels)
    IN  [k \in 1..Len(d) |-> [i |-> d[k], is_cc |-> FALSE]]
        \o [k \in 1..Len(c) |-> [i |-> c[k], is_cc |-> TRUE]]

\* a variant that advances one row after every template row
RowHeightOne(e) == 1

\* r += 2 for a two-row block, r += 1 otherwise
RowHeight(e) == IF e.is_cc THEN 2 ELSE 1

RECURSIVE RowsBefore(_, _)
RowsBefore(order, k) == IF k <= 1 THEN 0
                        ELSE RowHeight(order[k - 1]) + RowsBefore(order, k - 1)

\* the value of r when entry k of order is laid out
RowTop(order, k) == hr + 1 + RowsBefore(order, k)

table_end_row(order) == hr + RowsBefore(order, Len(order) + 1)

\* the entries of order that became two-row blocks, in layout order
CcEntries(order) == SelectSeq([k \in 1..Len(order) |-> k], LAMBDA k : order[k].is_cc)

attr_names_cc(df, order) ==
    [a \in 1..Len(CcEntries(order)) |-> df.labels[order[CcEntries(order)[a]].i]]

\* a variant that records the lower cell of each block
lower_cells_by_col(df, order) ==
    [j \in 1..df.n |->
        [a \in 1..Len(CcEntries(order)) |-> <<RowTop(order, CcEntries(order)[a]) + 1, 2 + j>>]]

\* upper_cells_by_col[j][a]: the Matrix address <<row, column>> of the rating cell
upper_cells_by_col(df, order) ==
    [j \in 1..df.n |->
        [a \in 1..Len(CcEntries(order)) |-> <<RowTop(order, CcEntries(order)[a]), 2 + j>>]]

---------------------------------------------------------------------------
(***************************************************************************)
(*                         Cells and sheets                                *)
(***************************************************************************)
\* A sheet is a function from <<row, column>> to the cells that were written.
Text(v) == [k |-> "text", v |-> v]

Num(v) == [k |-> "num", v |-> v]

\* a text built from the call's arguments or the date (title, info band, headers)
Caption(what, idx) == [k |-> "caption", what |-> what, idx |-> idx]

None == [k |-> "none"]

Ref(sheet, rc) == [k |-> "ref", sheet |-> sheet, cell |-> rc]

Rng(r1, c1, r2, c2) == [r1 |-> r1, c1 |-> c1, r2 |-> r2, c2 |-> c2]

At(sheet, r, c) == IF <<r, c>> \in DOMAIN sheet THEN sheet[<<r, c>>] ELSE None

\* str(cell.value)
StrOf(cell) == IF cell.k = "text" THEN cell.v ELSE <<"N", "o", "n", "e">>

EmptySheet == [rc \in {} |-> None]

\* left_end, mid_start, mid_end, right_start of the row-2 info band
InfoBands(ncols) ==
    LET quarter == ncols \div 4
        left_end == IF quarter > 2 THEN quarter ELSE 2
        fromRight == ncols - (IF quarter > 2 THEN quarter ELSE 2) + 1
        right_start == IF fromRight > left_end + 1 THEN fromRight ELSE left_end + 1
    IN  [left_end |-> left_end, mid_start |-> left_end + 1,
         mid_end |-> right_start - 1, right_start |-> right_start]

InfoMerges(ncols, info_r) ==
    LET g == InfoBands(ncols)
    IN  << Rng(info_r, 1, info_r, g.left_end),
           Rng(info_r, g.mid_start, info_r, g.mid_end),
           Rng(info_r, g.right_start, info_r, ncols) >>

\* the three texts of the info band, written in this order
InfoCells(ncols, info_r) ==
    LET g == InfoBands(ncols)
    IN  (<<info_r, g.right_start>> :> Caption("Date", 0))
        @@ (<<info_r, g.mid_start>> :> Caption("Project Location", 0))
        @@ (<<info_r, 1>> :> Caption("Project Name", 0))

\* openpyxl's merge_cells builds a CellRange, which raises ValueError when
\* its first column (row) is greater than its last
MergeRaises(m) == m.c1 > m.c2 \/ m.r1 > m.r2

---------------------------------------------------------------------------
(***************************************************************************)
(*                          The Matrix sheet                               *)
(***************************************************************************)
\* txt of a one-row (Description section) cell
DescRowText(label, rawText) ==
    LET sp == split_rating_and_desc(rawText)
    IN  IF Lower(Strip(label)) \in NO_BULLET_ROWS THEN rawText
        ELSE IF sp.desc = <<>> /\ sp.rating # <<>> THEN sp.rating
        ELSE bulletize(IF sp.desc # <<>> THEN sp.desc ELSE rawText)

\* the cells written for entry k of order
MatrixRowCells(df, order, k) ==
    LET e == order[k]
        r == RowTop(order, k)
        label == df.labels[e.i]
    IN  IF e.is_cc
        THEN (<<r, 2>> :> Text(label))
             @@ [rc \in {r, r + 1} \X (3..(2 + df.n)) |->
                   LET sp == split_rating_and_desc(df.cells[e.i][rc[2] - 2])
                   IN  IF rc[1] = r THEN Text(sp.rating) ELSE Text(bulletize(sp.desc))]
        ELSE (<<r, 2>> :> Text(label))
             @@ [rc \in {r} \X (3..(2 + df.n)) |->
                   Text(DescRowText(label, df.cells[e.i][rc[2] - 2]))]

RECURSIVE MatrixRows(_, _, _)
MatrixRows(df, order, k) ==
    IF k = 0 THEN EmptySheet
    ELSE MatrixRowCells(df, order, k) @@ MatrixRows(df, order, k - 1)

\* the section bands in column 1: one per section that has rows
SectionBands(order) ==
    LET nd == Cardinality({k \in 1..Len(order) : ~order[k].is_cc})
        nc == Len(order) - nd
        descBand == IF nd = 0 THEN <<>>
                    ELSE <<[name |-> "Description",
                            range |-> Rng(RowTop(order, 1), 1, RowTop(order, nd + 1) - 1, 1)]>>
        ccBand == IF nc = 0 THEN <<>>
                  ELSE <<[name |-> "Construction Considerations",
                          range |-> Rng(RowTop(order, nd + 1), 1, table_end_row(order), 1)]>>
    IN  descBand \o ccBand

MatrixSheet(df, order) ==
    LET ncols == 2 + df.n
        bands == SectionBands(order)
    IN  MatrixRows(df, order, Len(order))
        @@ [rc \in {<<bands[b].range.r1, 1>> : b \in 1..Len(bands)} |->
              Caption("Section", 0)]
        @@ [rc \in {hr} \X (1..ncols) |->
              IF rc[2] = 1 THEN None
              ELSE IF rc[2] = 2 THEN Caption("Options", 0)
              ELSE Caption("Option", rc[2] - 2)]
        @@ InfoCells(ncols, 2)
        @@ (<<1, 1>> :> Caption("Title", 0))

MatrixMerges(df, order) ==
    LET ncols == 2 + df.n
        cc == CcEntries(order)
        bands == SectionBands(order)
    IN  <<Rng(1, 1, 1, ncols)>> \o InfoMerges(ncols, 2)
        \o [a \in 1..Len(cc) |-> Rng(RowTop(order, cc[a]), 2, RowTop(order, cc[a]) + 1, 2)]
        \o [b \in 1..Len(bands) |-> bands[b].range]

---------------------------------------------------------------------------
(***************************************************************************)
(*                       The Weights & SAW sheet                           *)
(***************************************************************************)
RatingMap == <<Poor, Fair, Good, VeryGood, Excellent>>

last_norm_col(n) == 4 + n

\* the header row, then the rating map written over it at map_col
WswHead(n) ==
    [rc \in (2..6) \X {map_col, map_col + 1} |->
        IF rc[2] = map_col THEN Text(RatingMap[rc[1] - 1]) ELSE Num(rc[1] - 1)]
    @@ (<<1, map_col>> :> Text(<<"R", "a", "t", "i", "n", "g">>))
    @@ (<<1, map_col + 1>> :> Text(<<"R", "a", "w">>))
    @@ [rc \in {1} \X (1..(4 + n)) |->
          IF rc[2] = 1 THEN Text(<<"A", "t", "t", "r", "i", "b", "u", "t", "e">>)
          ELSE IF rc[2] = 2 THEN Text(<<"A", "c", "t", "i", "v", "e", "?">>)
          ELSE IF rc[2] = 3 THEN Text(<<"I", "m", "p", "o", "r", "t", "a", "n", "c", "e", " ", "(", "1", "ndash", "5", ")">>)
          ELSE IF rc[2] = 4 THEN Text(<<"W", "e", "i", "g", "h", "t", " ", "(", "n", "o", "r", "m", "a", "l", "i", "z", "e", "d", ")">>)
          ELSE Caption("NormScore", rc[2] - 4)]

\* a variant whose ranges stop one row short of the last attribute row
WeightFormulaShort(i, n_attr) ==
    [k |-> "weight",
     active_rng |-> [r1 |-> 2, c1 |-> 2, r2 |-> n_attr, c2 |-> 2],
     imp_rng |-> [r1 |-> 2, c1 |-> 3, r2 |-> n_attr, c2 |-> 3],
     active |-> <<i, 2>>,
     imp |-> <<i, 3>>]

\* =IF(SUMPRODUCT((active_rng="Yes")*(imp_rng))=0,0,
\*     IF(B{i}="Yes",C{i},0)/SUMPRODUCT((active_rng="Yes")*(imp_rng)))
WeightFormula(i, n_attr) ==
    [k |-> "weight",
     active_rng |-> Rng(2, 2, 1 + n_attr, 2),
     imp_rng |-> Rng(2, 3, 1 + n_attr, 3),
     active |-> <<i, 2>>,
     imp |-> <<i, 3>>]

\* =MAX(0,(IFERROR(INDEX($M$2:$M$6,MATCH('Matrix'!{addr_rating},$L$2:$L$6,0)),0)-1)/4)
NormFormula(addr_rating) ==
    [k |-> "norm",
     rating |-> addr_rating,
     keys |-> Rng(2, map_col, 6, map_col),
     vals |-> Rng(2, map_col + 1, 6, map_col + 1)]

\* =SUMPRODUCT(w_rng, {col}2:{col}{1 + n_attr})
SawFormula(col_idx, n_attr) ==
    [k |-> "saw",
     w_rng |-> Rng(2, 4, 1 + n_attr, 4),
     x_rng |-> Rng(2, col_idx, 1 + n_attr, col_idx)]

\* =RANK({saw_cell},{rank_range},0)
RankFormula(j, total_row, n) ==
    [k |-> "rank",
     cell |-> <<total_row, j>>,
     range |-> Rng(total_row, 5, total_row, last_norm_col(n)),
     order |-> 0]

\* =ROUND(10*{saw_cell},0)
Score10Formula(j, total_row) == [k |-> "round10", cell |-> <<total_row, j>>]

\* the attribute rows, written after the rating map
WswAttrRows(attrs, upper, n) ==
    LET n_attr == Len(attrs)
    IN  [rc \in (2..(1 + n_attr)) \X (1..(4 + n)) |->
           LET i == rc[1]
               c == rc[2]
           IN  IF c = 1 THEN Text(attrs[i - 1])
               ELSE IF c = 2 THEN Text(<<"Y", "e", "s">>)
               ELSE IF c = 3 THEN Num(default_importance)
               ELSE IF c = 4 THEN WeightFormula(i, n_attr)
               ELSE NormFormula(upper[c - 4][i - 1])]

\* SAW Score, Rank, Score (0-10) and the sum of the weights, written last
WswTotals(n_attr, n) ==
    LET total_row == 2 + n_attr
        rank_row2 == total_row + 1
        score10_row == total_row + 2
        sumw_row == score10_row + 1
    IN  (<<sumw_row, 2>> :> [k |-> "sum", range |-> Rng(2, 4, 1 + n_attr, 4)])
        @@ (<<sumw_row, 1>> :> Text(<<"S", "u", "m", " ", "o", "f", " ", "n", "o", "r", "m", "a", "l", "i", "z", "e", "d", " ", "w", "e", "i", "g", "h", "t", "s">>))
        @@ [rc \in {score10_row} \X (5..last_norm_col(n)) |-> Score10Formula(rc[2], total_row)]
        @@ (<<score10_row, 1>> :> Text(<<"S", "c", "o", "r", "e", " ", "(", "0", "ndash", "1", "0", ")">>))
        @@ [rc \in {rank_row2} \X (5..last_norm_col(n)) |-> RankFormula(rc[2], total_row, n)]
        @@ (<<rank_row2, 1>> :> Text(<<"R", "a", "n", "k">>))
        @@ [rc \in {total_row} \X (5..last_norm_col(n)) |-> SawFormula(rc[2], n_attr)]
        @@ (<<total_row, 1>> :> Text(<<"S", "A", "W", " ", "S", "c", "o", "r", "e">>))

\* the sheet after all writes: a later write replaces an earlier one
WswSheet(attrs, upper, n) ==
    WswTotals(Len(attrs), n) @@ WswAttrRows(attrs, upper, n) @@ WswHead(n)

\* "Header live color based on SAW*10": AND(10*saw>=lo, 10*saw<hi)
bands == << [lo |-> 0, hi |-> 2, color |-> "FFC000"],
            [lo |-> 2, hi |-> 4, color |-> "FFFF66"],
            [lo |-> 4, hi |-> 6, color |-> "CCFF66"],
            [lo |-> 6, hi |-> 8, color |-> "78FE66"],
            [lo |-> 8, hi |-> 11, color |-> "19CB01"] >>

\* a variant whose last band ends at 100 hundredths
bands_pct_100 == << [lo |-> 0, hi |-> 20, color |-> "FFC000"],
                    [lo |-> 20, hi |-> 40, color |-> "FFFF66"],
                    [lo |-> 40, hi |-> 60, color |-> "CCFF66"],
                    [lo |-> 60, hi |-> 80, color |-> "78FE66"],
                    [lo |-> 80, hi |-> 100, color |-> "19CB01"] >>

\* the thresholds of the Score row, in hundredths: AND(addr>=lo, addr<hi)
bands_pct == << [lo |-> 0, hi |-> 20, color |-> "FFC000"],
                [lo |-> 20, hi |-> 40, color |-> "FFFF66"],
                [lo |-> 40, hi |-> 60, color |-> "CCFF66"],
                [lo |-> 60, hi |-> 80, color |-> "78FE66"],
                [lo |-> 80, hi |-> 101, color |-> "19CB01"] >>

\* a rule on cell `on`: AND(mul*x>=lo*den... ) with x the value of cell `of`
\* of sheet `sheet`; the rule compares mul * x with lo / den and hi / den
BandRules(on, sheet, of, table, mul, den) ==
    [b \in 1..Len(table) |->
        [on |-> on, sheet |-> sheet, of |-> of, mul |-> mul, den |-> den,
         lo |-> table[b].lo, hi |-> table[b].hi, color |-> table[b].color]]

MatrixHeaderRules(n, total_row) ==
    [j \in 1..n |-> BandRules(<<hr, 2 + j>>, "Weights & SAW", <<total_row, 4 + j>>, bands, 10, 1)]

---------------------------------------------------------------------------
(***************************************************************************)
(*                        The Summary CBA sheet                            *)
(***************************************************************************)
\* find_matrix_row(label_lower): 0 stands for None
find_matrix_row(matrix, last_row, label_lower) ==
    LET hits == {rr \in (hr + 1)..last_row :
                    Lower(Strip(StrOf(At(matrix, rr, 2)))) = label_lower}
    IN  IF hits = {} THEN 0 ELSE CHOOSE rr \in hits : \A x \in hits : rr <= x

\* a variant without the branch for a template that has only Disadvantages
SummaryFormulaProsOnly(adv_row, dis_row, j) ==
    [k |-> "summary",
     blocks |-> IF adv_row # 0 /\ dis_row # 0
                THEN <<[title |-> "Pros:", ref |-> <<adv_row, 2 + j>>],
                       [title |-> "Cons:", ref |-> <<dis_row, 2 + j>>]>>
                ELSE IF adv_row # 0 THEN <<[title |-> "Pros:", ref |-> <<adv_row, 2 + j>>]>>
                ELSE <<>>]

\* the formula of the Summary row for option j
SummaryFormula(adv_row, dis_row, j) ==
    LET pros == [title |-> "Pros:", ref |-> <<adv_row, 2 + j>>]
        cons == [title |-> "Cons:", ref |-> <<dis_row, 2 + j>>]
    IN  [k |-> "summary",
         blocks |-> IF adv_row # 0 /\ dis_row # 0 THEN <<pros, cons>>
                    ELSE IF adv_row # 0 THEN <<pros>>
                    ELSE IF dis_row # 0 THEN <<cons>>
                    ELSE <<>>]

SummarySheet(df, matrix, last_row, total_row) ==
    LET n == df.n
        ncols_sum == 1 + n
        matrix_row_ill == find_matrix_row(matrix, last_row, <<"i", "l", "l", "u", "s", "t", "r", "a", "t", "i", "o", "n">>)
        use_label == IF InLower(<<"s", "c", "h", "e", "m", "e">>, df.labels) THEN <<"s", "c", "h", "e", "m", "e">>
                     ELSE IF InLower(<<"d", "e", "s", "c", "r", "i", "p", "t", "i", "o", "n">>, df.labels) THEN <<"d", "e", "s", "c", "r", "i", "p", "t", "i", "o", "n">>
                     ELSE <<>>
        matrix_row_desc == IF use_label = <<>> THEN 0
                           ELSE find_matrix_row(matrix, last_row, use_label)
        adv_row == find_matrix_row(matrix, last_row, <<"a", "d", "v", "a", "n", "t", "a", "g", "e", "s">>)
        dis_row == find_matrix_row(matrix, last_row, <<"d", "i", "s", "a", "d", "v", "a", "n", "t", "a", "g", "e", "s">>)
    IN  [rc \in {row_summary} \X (2..ncols_sum) |-> SummaryFormula(adv_row, dis_row, rc[2] - 1)]
        @@ [rc \in {row_score} \X (2..ncols_sum) |-> Ref("Weights & SAW", <<total_row, 4 + (rc[2] - 1)>>)]
        @@ [rc \in (IF matrix_row_desc # 0 THEN {row_desc} \X (2..ncols_sum) ELSE {}) |->
              Ref("Matrix", <<matrix_row_desc, 2 + (rc[2] - 1)>>)]
        @@ [rc \in {row_opt} \X (2..ncols_sum) |-> Ref("Matrix", <<hr, 2 + (rc[2] - 1)>>)]
        @@ [rc \in (IF matrix_row_ill # 0 THEN {row_ill} \X (2..ncols_sum) ELSE {}) |->
              Ref("Matrix", <<matrix_row_ill, 2 + (rc[2] - 1)>>)]
        @@ (<<row_ill, 1>> :> Text(<<"I", "l", "l", "u", "s", "t", "r", "a", "t", "i", "o", "n">>))
        @@ (<<row_opt, 1>> :> Text(<<"O", "p", "t", "i", "o", "n">>))
        @@ (<<row_desc, 1>> :> Text(<<"D", "e", "s", "c", "r", "i", "p", "t", "i", "o", "n">>))
        @@ (<<row_score, 1>> :> Text(<<"S", "c", "o", "r", "e">>))
        @@ (<<row_summary, 1>> :> Text(<<"S", "u", "m", "m", "a", "r", "y">>))
        @@ InfoCells(ncols_sum, 2)
        @@ (<<1, 1>> :> Caption("Title", 0))

SummaryMerges(n) == <<Rng(1, 1, 1, 1 + n)>> \o InfoMerges(1 + n, 2)

SummaryOptionRules(n, total_row) ==
    [j \in 1..n |-> BandRules(<<row_opt, 1 + j>>, "Weights & SAW", <<total_row, 4 + j>>, bands, 10, 1)]

SummaryScoreRules(n) ==
    [j \in 1..n |-> BandRules(<<row_score, 1 + j>>, "Summary CBA", <<row_score, 1 + j>>, bands_pct, 1, 100)]

---------------------------------------------------------------------------
(***************************************************************************)
(*                  generate_cba_from_uploaded_template                    *)
(***************************************************************************)
\* the one element of a set of one
Only(S) == CHOOSE r \in S : TRUE

\* df0, order, attr_names_cc, upper_cells_by_col and the Matrix sheet after the
\* layout loop (each is bound to its value once)
Layout(t) ==
    Only({ Only({ [df |-> df,
                   order |-> order,
                   attrs |-> attr_names_cc(df, order),
                   upper |-> upper_cells_by_col(df, order),
                   matrix |-> MatrixSheet(df, order)] :
                  order \in {SectionOrder(df.labels)} }) :
           df \in {EnsureIllustration(t)} })

\* the workbook the call returns for template t
Workbook(t) ==
    Only({ LET n_attr == Len(L.attrs)
               total_row == 2 + n_attr
           IN  [made |-> TRUE,
                matrix |-> L.matrix,
                matrixMerges |-> MatrixMerges(L.df, L.order),
                ratingCells |-> {L.upper[j][a] : j \in 1..L.df.n, a \in 1..n_attr},
                matrixRules |-> MatrixHeaderRules(L.df.n, total_row),
                wsw |-> WswSheet(L.attrs, L.upper, L.df.n),
                activeCells |-> {<<i, 2>> : i \in 2..(1 + n_attr)},
                importCells |-> {<<i, 3>> : i \in 2..(1 + n_attr)},
                summary |-> SummarySheet(L.df, L.matrix, table_end_row(L.order), total_row),
                summaryMerges |-> SummaryMerges(L.df.n),
                optionRules |-> SummaryOptionRules(L.df.n, total_row),
                scoreRules |-> SummaryScoreRules(L.df.n)] :
           L \in {Layout(t)} })

\* the call raises (a merge of the info band is refused) and returns nothing
GenerateRaises(t) ==
    \/ \E k \in 1..3 : MergeRaises(InfoMerges(2 + t.n, 2)[k])
    \/ \E k \in 1..3 : MergeRaises(InfoMerges(1 + t.n, 2)[k])

---------------------------------------------------------------------------
(***************************************************************************)
(*      The spreadsheet engine: the values the formulas evaluate to        *)
(*                                                                         *)
(* A formula that refers (through other cells or directly) to its own cell *)
(* is a circular reference.  The engine shows 0 in such a cell unless its  *)
(* iterative calculation is on, in which case it shows the value the       *)
(* formulas settle on.  Both outcomes are modelled: `iter` chooses.        *)
(***************************************************************************)
RECURSIVE Gcd(_, _)
Gcd(a, b) == IF b = 0 THEN a ELSE Gcd(b, a % b)

\* a fraction in lowest terms
Frac(n, d) ==
    IF Gcd(n, d) = 0 THEN [n |-> 0, d |-> 1]
    ELSE [n |-> n \div Gcd(n, d), d |-> d \div Gcd(n, d)]

\* (each operand is bound to its value before it is used)
FAdd(x, y) == Only({Frac(p[1].n * p[2].d + p[2].n * p[1].d, p[1].d * p[2].d) : p \in {<<x, y>>}})

FMul(x, y) == Only({Frac(p[1].n * p[2].n, p[1].d * p[2].d) : p \in {<<x, y>>}})

FLt(x, y) == \A p \in {<<x, y>>} : p[1].n * p[2].d < p[2].n * p[1].d

FLeq(x, y) == \A p \in {<<x, y>>} : p[1].n * p[2].d <= p[2].n * p[1].d

RECURSIVE FSum(_)
FSum(xs) == IF xs = <<>> THEN Frac(0, 1) ELSE FAdd(Head(xs), FSum(Tail(xs)))

FormulaKinds == {"weight", "norm", "saw", "rank", "round10", "sum"}

\* a range with its corners in either order covers the same cells
RowsOf(g) == (IF g.r1 < g.r2 THEN g.r1 ELSE g.r2)..(IF g.r1 < g.r2 THEN g.r2 ELSE g.r1)

ColsOf(g) == (IF g.c1 < g.c2 THEN g.c1 ELSE g.c2)..(IF g.c1 < g.c2 THEN g.c2 ELSE g.c1)

FormulasIn(W, g) == {rc \in RowsOf(g) \X ColsOf(g) : At(W, rc[1], rc[2]).k \in FormulaKinds}

\* the formula cells a formula cell reads
Precedents(W, rc) ==
    LET f == W[rc]
    IN  CASE f.k = "norm" -> FormulasIn(W, f.keys) \cup FormulasIn(W, f.vals)
          [] f.k = "saw" -> FormulasIn(W, f.w_rng) \cup FormulasIn(W, f.x_rng)
          [] f.k = "rank" -> FormulasIn(W, f.range)
                             \cup FormulasIn(W, Rng(f.cell[1], f.cell[2], f.cell[1], f.cell[2]))
          [] f.k = "round10" -> FormulasIn(W, Rng(f.cell[1], f.cell[2], f.cell[1], f.cell[2]))
          [] f.k = "sum" -> FormulasIn(W, f.range)
          [] OTHER -> {}

\* the cells reached from frontier along reads (reads[rc]: the cells rc reads)
RECURSIVE ReadsClosure(_, _, _)
ReadsClosure(reads, seen, frontier) ==
    IF frontier = {} THEN seen
    ELSE Only({ReadsClosure(reads, p[1] \cup p[2], p[2] \ p[1]) :
                  p \in {<<seen, UNION {reads[rc] : rc \in frontier}>>}})

\* the cells that lie on a circular reference
Circular(W) ==
    UNION { {rc \in DOMAIN reads : rc \in ReadsClosure(reads, reads[rc], reads[rc])} :
               reads \in {[rc \in {x \in DOMAIN W : W[x].k \in FormulaKinds} |-> Precedents(W, rc)]} }

IsYes(cell) == cell.k = "text" /\ cell.v = <<"Y", "e", "s">>

NumOf(cell) == IF cell.k = "num" THEN cell.v ELSE 0

TextOf(cell) == IF cell.k = "text" THEN cell.v ELSE <<>>

RangeRows(g) == [x \in 1..Cardinality(RowsOf(g)) |-> (IF g.r1 < g.r2 THEN g.r1 ELSE g.r2) + x - 1]

RECURSIVE IntSum(_)
IntSum(xs) == IF xs = <<>> THEN 0 ELSE Head(xs) + IntSum(Tail(xs))

\* SUMPRODUCT((active_rng="Yes")*(imp_rng))
ActiveImportance(W, f) ==
    IntSum([x \in 1..Len(RangeRows(f.active_rng)) |->
              IF IsYes(At(W, RangeRows(f.active_rng)[x], f.active_rng.c1))
              THEN NumOf(At(W, RangeRows(f.imp_rng)[x], f.imp_rng.c1)) ELSE 0])

\* the value of a Weight (normalized) cell
WeightValue(W, rc) ==
    LET f == W[rc]
        total == ActiveImportance(W, f)
    IN  IF total = 0 THEN Frac(0, 1)
        ELSE Frac(IF IsYes(At(W, f.active[1], f.active[2]))
                  THEN NumOf(At(W, f.imp[1], f.imp[2])) ELSE 0, total)

\* MATCH(text, keys, 0): the first row of keys holding that text, 0 for #N/A
MatchRow(W, M, f) ==
    LET wanted == At(M, f.rating[1], f.rating[2])
        hits == {r \in RowsOf(f.keys) :
                    /\ wanted.k = "text"
                    /\ At(W, r, f.keys.c1).k = "text"
                    /\ At(W, r, f.keys.c1).v = wanted.v}
    IN  IF hits = {} THEN 0 ELSE CHOOSE r \in hits : \A x \in hits : r <= x

\* MAX(0,(IFERROR(INDEX(vals,MATCH(...)),0)-1)/4)
NormFormulaValue(W, M, rc) ==
    LET f == W[rc]
        row == MatchRow(W, M, f)
        found == IF row = 0 THEN 0 ELSE NumOf(At(W, f.vals.r1 + (row - f.keys.r1), f.vals.c1))
    IN  IF found - 1 < 0 THEN Frac(0, 1) ELSE Frac(found - 1, 4)

\* the value shown in a cell of the Weights & SAW sheet that is read as a number
NumberAt(W, M, cyc, rc) ==
    LET c == At(W, rc[1], rc[2])
    IN  IF rc \in cyc THEN Frac(0, 1)
        ELSE IF c.k = "num" THEN Frac(c.v, 1)
        ELSE IF c.k = "weight" THEN WeightValue(W, rc)
        ELSE IF c.k = "norm" THEN NormFormulaValue(W, M, rc)
        ELSE Frac(0, 1)

\* SUMPRODUCT(w_rng, x_rng)
SawValue(W, M, cyc, rc) ==
    LET f == W[rc]
    IN  IF rc \in cyc THEN Frac(0, 1)
        ELSE FSum([x \in 1..Len(RangeRows(f.w_rng)) |->
                     FMul(NumberAt(W, M, cyc, <<RangeRows(f.w_rng)[x], f.w_rng.c1>>),
                          NumberAt(W, M, cyc, <<RangeRows(f.x_rng)[x], f.x_rng.c1>>))])

\* the number a cell of the SAW row shows (a text or an empty cell is no number)
SawAt(W, M, cyc, rc) ==
    IF At(W, rc[1], rc[2]).k = "saw" THEN SawValue(W, M, cyc, rc) ELSE Frac(0, 1)

\* RANK(cell, range, order): order 0 ranks the largest first
RankValue(W, M, cyc, rc) ==
    LET f == W[rc]
        mine == SawAt(W, M, cyc, f.cell)
        others == {x \in RowsOf(f.range) \X ColsOf(f.range) : At(W, x[1], x[2]).k = "saw"}
    IN  IF rc \in cyc THEN 0
        ELSE 1 + Cardinality({x \in others :
                                IF f.order = 0 THEN FLt(mine, SawAt(W, M, cyc, x))
                                ELSE FLt(SawAt(W, M, cyc, x), mine)})

\* ROUND(10*cell, 0) of a value that is not negative
Score10Value(W, M, cyc, rc) ==
    LET s == SawAt(W, M, cyc, W[rc].cell)
    IN  IF rc \in cyc THEN 0 ELSE (20 * s.n + s.d) \div (2 * s.d)

\* SUM(range) of the weight column
SumValue(W, rc) ==
    FSum([x \in 1..Len(RangeRows(W[rc].range)) |->
            LET at == <<RangeRows(W[rc].range)[x], W[rc].range.c1>>
            IN  IF At(W, at[1], at[2]).k = "weight" THEN WeightValue(W, at) ELSE Frac(0, 1)])

\* AND(mul*x >= lo/den, mul*x < hi/den)
RuleHolds(rule, x) ==
    /\ FLeq(Frac(rule.lo, rule.den), FMul(Frac(rule.mul, 1), x))
    /\ FLt(FMul(Frac(rule.mul, 1), x), Frac(rule.hi, rule.den))

---------------------------------------------------------------------------
(***************************************************************************)
(*        The text helpers applied to bounded raw cell texts               *)
(***************************************************************************)
Heads == { <<"P", "o", "o", "r">>, <<"f", "a", "i", "r">>, <<"G", "O", "O", "D">>, <<"G", "o", "o", "d">>, <<"v", "e", "r", "y", " ", "g", "o", "o", "d">>, <<"V", "e", "r", "y", " ", " ", "G", "o", "o", "d">>,
           <<"V", "e", "r", "y", "\n", "G", "o", "o", "d">>, <<"e", "x", "c", "e", "l", "l", "e", "n", "t">>, <<"G", "o", "o", "d", "n", "e", "s", "s">>, <<"v", "e", "r", "y", "g", "o", "o", "d">>,
           <<"0">>, <<"1">>, <<"2">>, <<"3">>, <<"4">>, <<"5">>, <<"6">>, <<"7">>, <<"9">>,
           <<"f", "o", "o">>, <<"n", "a", "n">>, <<>> }

Mids == { <<>>, <<" ">>, <<":">>, <<":", " ">>, <<" ", "-", " ">>, <<"-">>, <<" ", "ndash", " ">>, <<"mdash">>,
          <<".", "0">>, <<".", "0", ":", " ">>, <<".", "5">>, <<";">>, <<"\n">>, <<"x">> }

Tails == { <<>>, <<"f", "o", "o">>, <<"a", ";", " ", "b">>, <<"a", "\n", "b">>, <<"7", ":", " ", "f", "o", "o">>, <<" ", "-", " ">> }

Inputs == { Spaces(p) \o h \o m \o t : p \in 0..MaxPad, h \in Heads, m \in Mids, t \in Tails }

NoOut == [rating |-> <<>>, desc |-> <<>>, bullets |-> <<>>]

NoTpl == [labels |-> <<>>, n |-> 0, cells |-> <<>>]

NoWb == [made |-> FALSE]

\* the page is not part of this run
NoApp == [made |-> FALSE]

InitText ==
    /\ phase = "input"
    /\ raw \in Inputs
    /\ out = NoOut
    /\ tpl = NoTpl
    /\ wb = NoWb
    /\ app = NoApp

\* rating_word, desc = split_rating_and_desc(raw)
SplitRatingAndDesc ==
    /\ phase = "input"
    /\ phase' = "split"
    /\ out' = [out EXCEPT !.rating = split_rating_and_desc(raw).rating,
                          !.desc = split_rating_and_desc(raw).desc]
    /\ UNCHANGED <<tpl, wb, raw, app>>

\* the lower Matrix cell: bulletize(desc)
Bulletize ==
    /\ phase = "split"
    /\ phase' = "bulleted"
    /\ out' = [out EXCEPT !.bullets = bulletize(out.desc)]
    /\ UNCHANGED <<tpl, wb, raw, app>>

NextText == SplitRatingAndDesc \/ Bulletize

SpecText == InitText /\ [][NextText]_vars

---------------------------------------------------------------------------
(***************************************************************************)
(*                 Generating workbooks from templates                     *)
(***************************************************************************)
LabelPool == << <<" ", "I", "L", "L", "U", "S", "T", "R", "A", "T", "I", "O", "N", " ">>, <<"S", "c", "h", "e", "m", "e">>, <<"A", "d", "v", "a", "n", "t", "a", "g", "e", "s">>, <<"D", "i", "s", "a", "d", "v", "a", "n", "t", "a", "g", "e", "s">>,
                <<"C", "o", "s", "t">>, <<" ", "n", "o", "i", "s", "e", " ">>, <<"F", "o", "o">> >>

\* raw cell texts as pandas hands them over ("nan" is an empty cell)
RawPool == << <<"G", "o", "o", "d">>, <<"5", ":", " ", "f", "a", "s", "t", ";", " ", "c", "h", "e", "a", "p">>, <<"n", "a", "n">>, <<"2", ".", "0", " ", "-", " ", "s", "l", "o", "w">>, <<"7", ":", " ", "f", "o", "o">>,
              <<"v", "e", "r", "y", " ", "g", "o", "o", "d">>, <<"P", "o", "o", "r", " ", "ndash", " ", "n", "o", "i", "s", "y">>, <<>>, <<"4">>, <<"E", "x", "c", "e", "l", "l", "e", "n", "t">> >>

SameText == <<"5", ".", "0">>

\* the first option rated the same in every row, the others with the pool's
\* texts in turn along rows and columns
FillCell(i, j) ==
    IF j = 1 THEN SameText ELSE RawPool[((i + j - 2) % Len(RawPool)) + 1]

Template(labels, n) ==
    [labels |-> labels, n |-> n,
     cells |-> [i \in 1..Len(labels) |-> [j \in 1..n |-> FillCell(i, j)]]]

\* label columns of up to MaxRows different labels
LabelSeqs ==
    UNION { {[x \in 1..k |-> LabelPool[f[x]]] :
                f \in {g \in [1..k -> 1..Len(LabelPool)] :
                          \A a, b \in 1..k : a # b => g[a] # g[b]}} : k \in 0..MaxRows }

LayoutTemplates ==
    {Template(ls, n) : ls \in LabelSeqs, n \in 1..MaxOpts}

AttrPool == << <<"C", "o", "s", "t">>, <<"F", "o", "o">>, <<" ", "n", "o", "i", "s", "e", " ">>, <<"V", "i", "b", "r", "a", "t", "i", "o", "n">>, <<"S", "p", "o", "i", "l", "s", " ", "H", "a", "n", "d", "l", "i", "n", "g">> >>

\* templates for the weighting model: EditOpts options, up to MaxAttrs attribute rows
EditTemplates ==
    {Template(SubSeq(AttrPool, 1, a), EditOpts) : a \in 1..MaxAttrs}

InitIdle ==
    /\ phase = "idle"
    /\ tpl = NoTpl
    /\ wb = NoWb
    /\ raw = <<>>
    /\ out = NoOut
    /\ app = NoApp

\* one call of generate_cba_from_uploaded_template on template t
Generate(t) ==
    /\ phase = "idle"
    /\ tpl' = t
    /\ IF GenerateRaises(t)
       THEN phase' = "failed" /\ wb' = NoWb
       ELSE phase' = "generated" /\ wb' = Workbook(t)
    /\ UNCHANGED <<raw, out, app>>

GenerateLayout == \E t \in LayoutTemplates : Generate(t)

GenerateEdit == \E t \in EditTemplates : Generate(t)

\* the user picks Yes or No in an Active? cell
SetActive ==
    /\ phase = "generated"
    /\ \E rc \in wb.activeCells, v \in {<<"Y", "e", "s">>, <<"N", "o">>} :
          /\ wb.wsw[rc] # Text(v)
          /\ wb' = [wb EXCEPT !.wsw[rc] = Text(v)]
    /\ UNCHANGED <<phase, tpl, raw, out, app>>

\* the user picks 1..5 in an Importance cell
SetImportance ==
    /\ phase = "generated"
    /\ \E rc \in wb.importCells, v \in 1..5 :
          /\ wb.wsw[rc] # Num(v)
          /\ wb' = [wb EXCEPT !.wsw[rc] = Num(v)]
    /\ UNCHANGED <<phase, tpl, raw, out, app>>

NextLayout == GenerateLayout

SpecLayout == InitIdle /\ [][NextLayout]_vars

NextEdit == GenerateEdit \/ SetActive \/ SetImportance

SpecEdit == InitIdle /\ [][NextEdit]_vars

---------------------------------------------------------------------------
(***************************************************************************)
(*      src/app.py: the page around the generator, one script run at a     *)
(*      time                                                               *)
(***************************************************************************)

\* st.session_state.xlsx_bytes = None
NoBytes == [made |-> FALSE]

\* st.session_state.last_inputs_sig = None
NoSig == <<>>

\* uploaded is None
NoUpload == [present |-> FALSE]

\* an uploaded file whose bytes are not a workbook: pd.ExcelFile raises
NotXlsx == [xlsx |-> FALSE]

Upload(name, size, bytes) ==
    [present |-> TRUE, name |-> name, size |-> size, bytes |-> bytes]

\* the files the user has at hand
Uploads ==
    { NoUpload,
      Upload("a.xlsx", 1, Template(<< <<"C", "o", "s", "t">> >>, 4)),
      Upload("b.xlsx", 2, Template(<< <<"C", "o", "s", "t">>, <<"N", "o", "i", "s", "e">> >>, 5)),
      Upload("c.xlsx", 3, NotXlsx) }

PurposeChoices == { <<"D", "e", "e", "p", " ", "F", "o", "u", "n", "d", "a", "t", "i", "o", "n", " ", "S", "y", "s", "t", "e", "m">>, <<"O", "t", "h", "e", "r">> }

PurposeOthers == { <<>>, <<" ">>, <<"D", "o", "c", "k", ":", " ", "A">> }

ProjectNames == { <<>>, <<" ">>, <<"P", "i", "e", "r", " ", "9">>, <<"P", "i", "e", "r", " ", "9", " ">> }

ProjectLocations == { <<>>, <<"O", "s", "l", "o">> }

\* the form as the user can submit it; the "Enter purpose:" box exists only
\* when the choice is Other
FormInputs ==
    { f \in [purpose_choice : PurposeChoices, purpose_other : PurposeOthers,
             project_name : ProjectNames, project_location : ProjectLocations,
             uploaded : Uploads] :
        f.purpose_choice # <<"O", "t", "h", "e", "r">> => f.purpose_other = <<>> }

\* the form before the user touched it
FormDefaults ==
    [purpose_choice |-> <<"D", "e", "e", "p", " ", "F", "o", "u", "n", "d", "a", "t", "i", "o", "n", " ", "S", "y", "s", "t", "e", "m">>, purpose_other |-> <<>>,
     project_name |-> <<>>, project_location |-> <<>>, uploaded |-> NoUpload]

purpose(f) ==
    IF f.purpose_choice = <<"O", "t", "h", "e", "r">>
    THEN Strip(f.purpose_other)
    ELSE Strip(f.purpose_choice)

\* missing, without the strip of project_name
missing_unstripped(f) ==
    (IF purpose(f) = <<>> THEN << <<"P", "u", "r", "p", "o", "s", "e">> >> ELSE <<>>)
    \o (IF f.project_name = <<>> THEN << <<"P", "r", "o", "j", "e", "c", "t", " ", "N", "a", "m", "e">> >> ELSE <<>>)
    \o (IF Strip(f.project_location) = <<>> THEN << <<"P", "r", "o", "j", "e", "c", "t", " ", "L", "o", "c", "a", "t", "i", "o", "n">> >> ELSE <<>>)
    \o (IF ~f.uploaded.present THEN << <<"T", "e", "m", "p", "l", "a", "t", "e", " ", "X", "L", "S", "X">> >> ELSE <<>>)

missing(f) ==
    (IF purpose(f) = <<>> THEN << <<"P", "u", "r", "p", "o", "s", "e">> >> ELSE <<>>)
    \o (IF Strip(f.project_name) = <<>> THEN << <<"P", "r", "o", "j", "e", "c", "t", " ", "N", "a", "m", "e">> >> ELSE <<>>)
    \o (IF Strip(f.project_location) = <<>> THEN << <<"P", "r", "o", "j", "e", "c", "t", " ", "L", "o", "c", "a", "t", "i", "o", "n">> >> ELSE <<>>)
    \o (IF ~f.uploaded.present THEN << <<"T", "e", "m", "p", "l", "a", "t", "e", " ", "X", "L", "S", "X">> >> ELSE <<>>)

inputs_sig(f) ==
    << purpose(f), Strip(f.project_name), Strip(f.project_location),
       f.uploaded.name, f.uploaded.size >>

\* the test of line 80 replaced by one that always regenerates
regenerate_always(last, f) == TRUE

\* if inputs_sig != st.session_state.last_inputs_sig
regenerate(last, f) == inputs_sig(f) # last

\* today's date as %m%d%Y
Today == <<"1", "1", "0", "3", "2", "0", "2", "6">>

UnsafeChars == {"\\", "/", "*", "?", ":", "<", ">", "|", "\""}

safe_name(s) == SelectSeq(s, LAMBDA c : c \notin UnsafeChars)

\* the call of lines 82-88 does not return
GeneratorRaises(f) ==
    \/ f.uploaded.bytes = NotXlsx
    \/ GenerateRaises(f.uploaded.bytes)

\* what the call of lines 82-88 returns: the saved workbook, as the arguments
\* it was built from, and out_name
Generated(f) ==
    [xlsx_bytes |-> [made |-> TRUE, purpose |-> purpose(f),
                     project_name |-> Strip(f.project_name),
                     project_location |-> Strip(f.project_location),
                     template |-> f.uploaded.bytes],
     out_name |-> safe_name(<<"T", "E", "G", " ", "C", "B", "A", " ", "M", "a", "t", "r", "i", "x", "-">> \o purpose(f) \o <<"-">>
                            \o Strip(f.project_name) \o <<"-">> \o Today)
                  \o <<".", "x", "l", "s", "x">>]

\* the Download button is drawn when the run reaches line 94 with output held
Download(s) == s.xlsx_bytes.made

\* the first run of the script: nothing submitted, the info line shown
FirstRun ==
    [made |-> TRUE, xlsx_bytes |-> NoBytes, out_name |-> <<>>,
     last_inputs_sig |-> NoSig, inputs |-> FormDefaults, submitted |-> FALSE,
     called |-> FALSE, message |-> "none", text |-> <<>>, download |-> FALSE,
     made_sig |-> NoSig]

\* one run of the script with submitted = True on form f, from session s.
\* called: generate_cba_from_uploaded_template was invoked in this run;
\* made_sig: the signature of the last run whose invocation returned.
ApplyRun(s, f) ==
    IF missing(f) # <<>>
    THEN [s EXCEPT !.xlsx_bytes = NoBytes, !.out_name = <<>>,
                   !.inputs = f, !.submitted = TRUE, !.called = FALSE,
                   !.message = "error",
                   !.text = <<"P", "l", "e", "a", "s", "e", " ", "f", "i", "l", "l", " ", "i", "n", ":", " ">> \o Join(missing(f), <<",", " ">>),
                   !.download = FALSE]
    ELSE IF ~regenerate(s.last_inputs_sig, f)
    THEN [s EXCEPT !.inputs = f, !.submitted = TRUE, !.called = FALSE,
                   !.message = "success",
                   !.text = <<"T", "h", "e", " ", "f", "o", "r", "m", "a", "t", "t", "e", "d", " ", "E", "x", "c", "e", "l", " ", "f", "i", "l", "e", " ", "i", "s", " ", "g", "e", "n", "e", "r", "a", "t", "e", "d", ".", " ", "C", "l", "i", "c", "k", " ", "D", "o", "w", "n", "l", "o", "a", "d", " ", "t", "o", " ", "d", "o", "w", "n", "l", "o", "a", "d", ".">>,
                   !.download = Download(s)]
    ELSE IF GeneratorRaises(f)
    THEN [s EXCEPT !.inputs = f, !.submitted = TRUE, !.called = TRUE,
                   !.message = "exception", !.text = <<>>,
                   !.download = FALSE]
    ELSE [s EXCEPT !.xlsx_bytes = Generated(f).xlsx_bytes,
                   !.out_name = Generated(f).out_name,
                   !.last_inputs_sig = inputs_sig(f),
                   !.inputs = f, !.submitted = TRUE, !.called = TRUE,
                   !.message = "success",
                   !.text = <<"T", "h", "e", " ", "f", "o", "r", "m", "a", "t", "t", "e", "d", " ", "E", "x", "c", "e", "l", " ", "f", "i", "l", "e", " ", "i", "s", " ", "g", "e", "n", "e", "r", "a", "t", "e", "d", ".", " ", "C", "l", "i", "c", "k", " ", "D", "o", "w", "n", "l", "o", "a", "d", " ", "t", "o", " ", "d", "o", "w", "n", "l", "o", "a", "d", ".">>,
                   !.download = TRUE,
                   !.made_sig = inputs_sig(f)]

InitApp ==
    /\ phase = "page"
    /\ tpl = NoTpl
    /\ wb = NoWb
    /\ raw = <<>>
    /\ out = NoOut
    /\ app = FirstRun

\* the user clicks Apply
Apply ==
    /\ phase = "page"
    /\ \E f \in FormInputs : app' = ApplyRun(app, f)
    /\ UNCHANGED <<phase, tpl, wb, raw, out>>

\* the user clicks Download: the script runs again with submitted = False
ClickDownload ==
    /\ phase = "page"
    /\ app.download
    /\ app' = [app EXCEPT !.submitted = FALSE, !.called = FALSE,
                          !.message = "none", !.text = <<>>,
                          !.download = Download(app)]
    /\ UNCHANGED <<phase, tpl, wb, raw, out>>

NextApp == Apply \/ ClickDownload

SpecApp == InitApp /\ [][NextApp]_vars

---------------------------------------------------------------------------
(***************************************************************************)
(*                     Properties of the generated workbook                *)
(***************************************************************************)
\* a workbook was returned
Made == phase = "generated" /\ wb.made

\* the number of attribute rows: the rows the Active? validation covers
NAttr == Cardinality(wb.activeCells)

Merged(merges, g) == \E m \in 1..Len(merges) : merges[m] = g

\* the engine's two treatments of circular references
EngineModes == {{}, Circular(wb.wsw)}

\* the SAW Score cell of option j
SawCell(j) == <<2 + NAttr, 4 + j>>

Saw(cyc, j) == SawAt(wb.wsw, wb.matrix, cyc, SawCell(j))

Key(label) == Lower(Strip(label))

\* the rows of the Matrix table that carry a label in column B
MatrixLabelRows == {rc[1] : rc \in {x \in DOMAIN wb.matrix : x[1] > hr /\ x[2] = 2}}

RowsLabelled(key) ==
    {r \in MatrixLabelRows : wb.matrix[<<r, 2>>].k = "text" /\ Key(wb.matrix[<<r, 2>>].v) = key}

RatingValues == {<<>>} \cup {RATING_WORDS[x] : x \in 1..Len(RATING_WORDS)}

\* C1: every NormScore formula at row 1+k, column 4+j of 'Weights & SAW' reads
\* the Matrix cell in column 2+j of the upper row of the merged two-row block
\* whose label is the attribute name in column A of that row; the Summary
\* Score cell and the header colour rules of option j read row 2+n_attr,
\* column 4+j, and that cell holds the SAW Score formula of option j.
NormScoreReferences ==
    Made =>
        /\ \A k \in 1..NAttr, j \in 1..tpl.n :
              LET f == At(wb.wsw, 1 + k, 4 + j)
                  name == At(wb.wsw, 1 + k, 1)
              IN  /\ f.k = "norm"
                  /\ f.rating[2] = 2 + j
                  /\ Merged(wb.matrixMerges, Rng(f.rating[1], 2, f.rating[1] + 1, 2))
                  /\ name.k = "text"
                  /\ At(wb.matrix, f.rating[1], 2) = name
                  /\ f.rating \in wb.ratingCells
        /\ \A j \in 1..tpl.n :
              /\ At(wb.summary, row_score, 1 + j) = Ref("Weights & SAW", SawCell(j))
              /\ \A b \in 1..Len(wb.matrixRules[j]) :
                    /\ wb.matrixRules[j][b].on = <<hr, 2 + j>>
                    /\ wb.matrixRules[j][b].sheet = "Weights & SAW"
                    /\ wb.matrixRules[j][b].of = SawCell(j)
              /\ \A b \in 1..Len(wb.optionRules[j]) :
                    /\ wb.optionRules[j][b].on = <<row_opt, 1 + j>>
                    /\ wb.optionRules[j][b].sheet = "Weights & SAW"
                    /\ wb.optionRules[j][b].of = SawCell(j)
              /\ At(wb.wsw, SawCell(j)[1], SawCell(j)[2]).k = "saw"
              /\ At(wb.wsw, SawCell(j)[1], SawCell(j)[2]).x_rng = Rng(2, 4 + j, 1 + NAttr, 4 + j)
              /\ At(wb.wsw, SawCell(j)[1], SawCell(j)[2]).w_rng = Rng(2, 4, 1 + NAttr, 4)

\* two attributes, the second an unlisted label, and an option in the column
\* of the rating map
NormScoreReferencesSeen ==
    /\ Made
    /\ NAttr = 2
    /\ tpl.n = 8
    /\ At(wb.wsw, 3, 1) = Text(<<"F", "o", "o">>)
    /\ At(wb.wsw, 3, 12).k = "norm"
    /\ At(wb.wsw, 3, 12).rating = <<9, 10>>

\* the rows whose Active? cell holds "Yes"
ActiveRows == {i \in 2..(1 + NAttr) : At(wb.wsw, i, 2) = Text(<<"Y", "e", "s">>)}

ImportanceOf(i) == At(wb.wsw, i, 3).v

RECURSIVE SumImportance(_)
SumImportance(S) ==
    IF S = {} THEN 0
    ELSE LET x == CHOOSE x \in S : TRUE IN ImportanceOf(x) + SumImportance(S \ {x})

\* C2: with at least one attribute, whatever the active flags and importances,
\* an inactive attribute has weight 0, an active one importance / (sum of the
\* active importances), and the weights sum to exactly 1 when an attribute is
\* active and to 0 when none is (in exact arithmetic).
WeightsNormalized ==
    (Made /\ NAttr >= 1) =>
        /\ \A i \in 2..(1 + NAttr) :
              /\ At(wb.wsw, i, 4).k = "weight"
              /\ WeightValue(wb.wsw, <<i, 4>>) =
                    IF i \in ActiveRows THEN Frac(ImportanceOf(i), SumImportance(ActiveRows))
                    ELSE Frac(0, 1)
        /\ At(wb.wsw, 5 + NAttr, 2).k = "sum"
        /\ SumValue(wb.wsw, <<5 + NAttr, 2>>) =
              IF ActiveRows # {} THEN Frac(1, 1) ELSE Frac(0, 1)

\* three attributes, one switched off, the others with importances 1 and 4
WeightsNormalizedSeen ==
    /\ Made
    /\ NAttr = 3
    /\ ActiveRows = {2, 4}
    /\ ImportanceOf(2) = 1
    /\ ImportanceOf(4) = 4
    /\ WeightValue(wb.wsw, <<4, 4>>) = Frac(4, 5)

\* the rating cells of option j
RatingCellsOf(j) == {rc \in wb.ratingCells : rc[2] = 2 + j}

\* C3: with at least one attribute and one of them active, every option's SAW
\* score lies in [0,1]; an option whose attributes are all rated "Excellent",
\* all of them active, scores exactly 1 and its Score (0-10) is 10.
SawScoreOfExcellent ==
    (Made /\ NAttr >= 1 /\ ActiveRows # {}) =>
        \A cyc \in EngineModes, j \in 1..tpl.n :
            /\ FLeq(Frac(0, 1), Saw(cyc, j))
            /\ FLeq(Saw(cyc, j), Frac(1, 1))
            /\ (/\ ActiveRows = 2..(1 + NAttr)
                /\ \A rc \in RatingCellsOf(j) : At(wb.matrix, rc[1], rc[2]) = Text(Excellent))
               => /\ Saw(cyc, j) = Frac(1, 1)
                  /\ At(wb.wsw, 4 + NAttr, 4 + j).k = "round10"
                  /\ Score10Value(wb.wsw, wb.matrix, cyc, <<4 + NAttr, 4 + j>>) = 10

\* the numeral a text begins with, 0 when it begins with none of 1..5
LeadingNumeral(s) == IF s # <<>> /\ s[1] \in {"1", "2", "3", "4", "5"} THEN DigitVal[s[1]] ELSE 0

\* C4: split_rating_and_desc returns rating "" exactly when the text has no
\* leading rating token, and then the description is the whole trimmed text
\* (so "7: foo" keeps "7: foo"); a rating that is returned is the word the
\* leading token maps to (1=Poor .. 5=Excellent).
SplitKeepsUnratedText ==
    phase = "split" =>
        /\ out.rating = <<>> => out.desc = Strip(raw)
        /\ out.rating # <<>> =>
              \/ StartsWith(Lower(Strip(raw)), Lower(out.rating))
              \/ /\ LeadingNumeral(Strip(raw)) # 0
                 /\ out.rating = RatingMap[LeadingNumeral(Strip(raw))]

\* C5: every template row whose label is in the Construction-Consideration
\* label set occupies exactly two consecutive Matrix rows with its label cell
\* merged over both, and the upper row holds, for every option, one of "",
\* Poor, Fair, Good, Very Good, Excellent; the rating split_rating_and_desc
\* returns is one of these for every raw text.
ConsiderationRowsAreBlocks ==
    /\ phase = "idle" => \A x \in Inputs : split_rating_and_desc(x).rating \in RatingValues
    /\ Made =>
          \A i \in 1..Len(tpl.labels) :
              Key(tpl.labels[i]) \in CONSID_ROWS =>
                  \E r \in MatrixLabelRows :
                      /\ {x \in MatrixLabelRows : wb.matrix[<<x, 2>>] = Text(tpl.labels[i])} = {r}
                      /\ Merged(wb.matrixMerges, Rng(r, 2, r + 1, 2))
                      /\ r + 1 \notin MatrixLabelRows
                      /\ \A j \in 1..tpl.n :
                            /\ At(wb.matrix, r, 2 + j).k = "text"
                            /\ At(wb.matrix, r, 2 + j).v \in RatingValues
                            /\ At(wb.matrix, r, 2 + j).v = split_rating_and_desc(tpl.cells[i][j]).rating
                            /\ At(wb.matrix, r + 1, 2 + j).k = "text"

\* two listed labels one after the other, with a numeral mapped to a word and
\* a text without a rating in their upper rows
ConsiderationRowsAreBlocksSeen ==
    /\ Made
    /\ Len(tpl.labels) = 3
    /\ Key(tpl.labels[2]) = <<"c", "o", "s", "t">>
    /\ Key(tpl.labels[3]) = <<"n", "o", "i", "s", "e">>
    /\ \E j \in 1..tpl.n : At(wb.matrix, 6, 2 + j) = Text(Excellent)
    /\ \E j \in 1..tpl.n : At(wb.matrix, 8, 2 + j) = Text(<<>>)
    /\ Merged(wb.matrixMerges, Rng(8, 2, 9, 2))

\* the attribute names in column A of 'Weights & SAW', top to bottom
AttributeColumn == [a \in 1..NAttr |-> TextOf(At(wb.wsw, 1 + a, 1))]

\* C6: 'Weights & SAW' has one attribute row for each template row whose label
\* is in the Construction-Consideration label set, none for any other row, and
\* the attribute rows are in the template's row order.
AttributesAreConsiderations ==
    Made => AttributeColumn = SelectSeq(tpl.labels, LAMBDA l : Key(l) \in CONSID_ROWS)

HasIllustration == \E i \in 1..Len(tpl.labels) : Key(tpl.labels[i]) = <<"i", "l", "l", "u", "s", "t", "r", "a", "t", "i", "o", "n">>

\* C7: for a template without an "illustration" label (trimmed, any case) the
\* Matrix has a row labelled "Illustration" at row 5, the first row of the
\* Description section, with an empty cell for every option, and the Summary
\* Illustration row references that row; a template that has such a label
\* gets no extra row.
IllustrationRowEnsured ==
    Made =>
        IF HasIllustration
        THEN /\ Cardinality(MatrixLabelRows) = Len(tpl.labels)
             /\ Cardinality(RowsLabelled(<<"i", "l", "l", "u", "s", "t", "r", "a", "t", "i", "o", "n">>)) = 1
        ELSE /\ Cardinality(MatrixLabelRows) = Len(tpl.labels) + 1
             /\ At(wb.matrix, hr + 1, 2) = Text(<<"I", "l", "l", "u", "s", "t", "r", "a", "t", "i", "o", "n">>)
             /\ RowsLabelled(<<"i", "l", "l", "u", "s", "t", "r", "a", "t", "i", "o", "n">>) = {hr + 1}
             /\ ~Merged(wb.matrixMerges, Rng(hr + 1, 2, hr + 2, 2))
             /\ \A j \in 1..tpl.n :
                   /\ At(wb.matrix, hr + 1, 2 + j) = Text(<<>>)
                   /\ At(wb.summary, row_ill, 1 + j) = Ref("Matrix", <<hr + 1, 2 + j>>)

\* a template with a Scheme row and no Illustration row
IllustrationRowEnsuredSeen ==
    /\ Made
    /\ ~HasIllustration
    /\ Len(tpl.labels) = 2
    /\ Key(tpl.labels[1]) = <<"s", "c", "h", "e", "m", "e">>
    /\ At(wb.matrix, hr + 2, 2) = Text(tpl.labels[1])
    /\ At(wb.summary, row_ill, 2) = Ref("Matrix", <<hr + 1, 3>>)

BlockTitles(f) == {f.blocks[b].title : b \in 1..Len(f.blocks)}

\* C8: the Summary formula of every option has a "Pros:" block exactly when
\* the Matrix has an Advantages row and a "Cons:" block exactly when it has a
\* Disadvantages row, is the empty-string formula when it has neither, and
\* each block reads the row with that label in the option's column 2+j.
ProsConsBlocks ==
    Made =>
        \A j \in 1..tpl.n :
            LET f == At(wb.summary, row_summary, 1 + j)
            IN  /\ f.k = "summary"
                /\ "Pros:" \in BlockTitles(f) <=> RowsLabelled(<<"a", "d", "v", "a", "n", "t", "a", "g", "e", "s">>) # {}
                /\ "Cons:" \in BlockTitles(f) <=> RowsLabelled(<<"d", "i", "s", "a", "d", "v", "a", "n", "t", "a", "g", "e", "s">>) # {}
                /\ (RowsLabelled(<<"a", "d", "v", "a", "n", "t", "a", "g", "e", "s">>) = {} /\ RowsLabelled(<<"d", "i", "s", "a", "d", "v", "a", "n", "t", "a", "g", "e", "s">>) = {})
                      => f.blocks = <<>>
                /\ Len(f.blocks) = Cardinality(BlockTitles(f))
                /\ \A b \in 1..Len(f.blocks) :
                      /\ f.blocks[b].title \in {"Pros:", "Cons:"}
                      /\ f.blocks[b].ref[2] = 2 + j
                      /\ f.blocks[b].ref[1] \in
                            RowsLabelled(IF f.blocks[b].title = "Pros:" THEN <<"a", "d", "v", "a", "n", "t", "a", "g", "e", "s">>
                                         ELSE <<"d", "i", "s", "a", "d", "v", "a", "n", "t", "a", "g", "e", "s">>)

\* a template with Disadvantages and without Advantages
ProsConsBlocksSeen ==
    /\ Made
    /\ RowsLabelled(<<"a", "d", "v", "a", "n", "t", "a", "g", "e", "s">>) = {}
    /\ RowsLabelled(<<"d", "i", "s", "a", "d", "v", "a", "n", "t", "a", "g", "e", "s">>) = {hr + 2}
    /\ At(wb.summary, row_summary, 2).blocks = <<[title |-> "Cons:", ref |-> <<hr + 2, 3>>]>>

\* the 'Weights & SAW' cell whose number a colour rule compares: the cell it
\* names, or the one the Summary cell it names shows
RuleCell(rule) ==
    IF rule.sheet = "Weights & SAW" THEN rule.of
    ELSE IF At(wb.summary, rule.of[1], rule.of[2]).k = "ref"
            /\ At(wb.summary, rule.of[1], rule.of[2]).sheet = "Weights & SAW"
    THEN At(wb.summary, rule.of[1], rule.of[2]).cell
    ELSE <<0, 0>>

\* the rules of a cell that hold when the cell they compare shows s
ColoursShown(rules, s) == {b \in 1..Len(rules) : RuleHolds(rules[b], s)}

\* C9: for every SAW score in [0,1], 1 included, exactly one of the five
\* colour rules of the Matrix option header holds, exactly one of the five
\* rules of the Summary Score cell holds, and the two have the same colour
\* (in exact arithmetic).
ColourBandsAgree ==
    Made =>
        \A cyc \in EngineModes, j \in 1..tpl.n :
            \A s \in {Saw(cyc, j)} :
                (FLeq(Frac(0, 1), s) /\ FLeq(s, Frac(1, 1))) =>
                    /\ Len(wb.matrixRules[j]) = 5
                    /\ Len(wb.scoreRules[j]) = 5
                    /\ \A b \in 1..5 :
                          /\ wb.matrixRules[j][b].on = <<hr, 2 + j>>
                          /\ wb.scoreRules[j][b].on = <<row_score, 1 + j>>
                          /\ RuleCell(wb.matrixRules[j][b]) = SawCell(j)
                          /\ RuleCell(wb.scoreRules[j][b]) = SawCell(j)
                    /\ \E b \in 1..5 :
                          /\ ColoursShown(wb.matrixRules[j], s) = {b}
                          /\ ColoursShown(wb.scoreRules[j], s) = {b}
                          /\ wb.matrixRules[j][b].color = wb.scoreRules[j][b].color
                          /\ FLeq(Frac(2 * (b - 1), 10), s)
                          /\ b < 5 => FLt(s, Frac(2 * b, 10))

\* edits of the importances bring a score onto the band boundary 4/5
ColourBandsAgreeSeen ==
    /\ Made
    /\ \E j \in 1..tpl.n :
          /\ Saw({}, j) = Frac(4, 5)
          /\ ColoursShown(wb.matrixRules[j], Frac(4, 5)) = {5}
          /\ ColoursShown(wb.scoreRules[j], Frac(4, 5)) = {5}

\* C10: the Rank formula of every option ranks its SAW score in descending
\* order against exactly the SAW Score cells of all options, so the rank
\* shown is 1 + the number of options with a strictly greater SAW score
\* (equal scores get equal ranks, the highest rank 1).
RankIsCompetitionRank ==
    Made =>
        \A cyc \in EngineModes, j \in 1..tpl.n :
            LET f == At(wb.wsw, 3 + NAttr, 4 + j)
            IN  /\ f.k = "rank"
                /\ f.order = 0
                /\ f.cell = SawCell(j)
                /\ f.range = Rng(2 + NAttr, 5, 2 + NAttr, 4 + tpl.n)
                /\ RankValue(wb.wsw, wb.matrix, cyc, <<3 + NAttr, 4 + j>>) =
                      1 + Cardinality({i \in 1..tpl.n : FLt(Saw(cyc, j), Saw(cyc, i))})

\* a text holds one of the separators bulletize splits on
HasBulletSep(s) == \E k \in 1..Len(BulletSeps) : Contains(s, BulletSeps[k])

\* C11: bulletize returns a text without any of the separators newline, ";",
\* " (bullet) ", " - ", " (ndash) " unchanged (trimmed); a text with one of
\* them comes back as a bullet list: every line is the bullet and a space
\* followed by a non-empty item without surrounding whitespace, so there is
\* no empty line and no empty bullet, also for a text made of separators.
BulletizeListsItems ==
    phase = "bulleted" =>
        IF ~HasBulletSep(Strip(out.desc))
        THEN out.bullets = Strip(out.desc)
        ELSE \A i \in 1..Len(SplitOn(out.bullets, "\n")) :
                LET ln == SplitOn(out.bullets, "\n")[i]
                IN  /\ StartsWith(ln, <<"bullet", " ">>)
                    /\ Drop(ln, 2) # <<>>
                    /\ Strip(Drop(ln, 2)) = Drop(ln, 2)

\* three ranges of row 2 that tile columns 1..ncols, each two columns or more
BandsTile(m, ncols) ==
    /\ Len(m) = 3
    /\ \A k \in 1..3 : /\ m[k].r1 = 2 /\ m[k].r2 = 2
                       /\ m[k].c1 <= m[k].c2
                       /\ m[k].c2 - m[k].c1 + 1 >= 2
    /\ m[1].c1 = 1
    /\ m[2].c1 = m[1].c2 + 1
    /\ m[3].c1 = m[2].c2 + 1
    /\ m[3].c2 = ncols

\* the three info texts stand in the first cells of the three ranges
BandTexts(sheet, m) ==
    /\ At(sheet, 2, m[1].c1) = Caption("Project Name", 0)
    /\ At(sheet, 2, m[2].c1) = Caption("Project Location", 0)
    /\ At(sheet, 2, m[3].c1) = Caption("Date", 0)
    /\ m[2].c1 # m[3].c1

\* C12: for every number of options from 1 on, the three info bands of row 2
\* (project name, location, date) are disjoint column ranges with start <=
\* end, each two columns wide or more, that cover columns 1..ncols, and the
\* location and the date are written to different cells; on the Matrix sheet
\* (ncols = 2 + options) and on the Summary CBA sheet (ncols = 1 + options).
InfoBandsTile ==
    phase \in {"generated", "failed"} =>
        /\ BandsTile(InfoMerges(2 + tpl.n, 2), 2 + tpl.n)
        /\ BandsTile(InfoMerges(1 + tpl.n, 2), 1 + tpl.n)
        /\ wb.made
        /\ SubSeq(wb.matrixMerges, 2, 4) = InfoMerges(2 + tpl.n, 2)
        /\ SubSeq(wb.summaryMerges, 2, 4) = InfoMerges(1 + tpl.n, 2)
        /\ BandTexts(wb.matrix, InfoMerges(2 + tpl.n, 2))
        /\ BandTexts(wb.summary, InfoMerges(1 + tpl.n, 2))

---------------------------------------------------------------------------
(***************************************************************************)
(*      The page: Apply, the missing fields, the cached signature          *)
(***************************************************************************)

\* the state follows a click on Apply
Applied == phase = "page" /\ app.submitted

Blank(s) == \A i \in 1..Len(s) : s[i] = " "

FieldNames == << <<"P", "u", "r", "p", "o", "s", "e">>, <<"P", "r", "o", "j", "e", "c", "t", " ", "N", "a", "m", "e">>, <<"P", "r", "o", "j", "e", "c", "t", " ", "L", "o", "c", "a", "t", "i", "o", "n">>, <<"T", "e", "m", "p", "l", "a", "t", "e", " ", "X", "L", "S", "X">> >>

\* field k of the submitted form f is not filled in
FieldMissing(f, k) ==
    CASE k = 1 -> f.purpose_choice = <<"O", "t", "h", "e", "r">> /\ Blank(f.purpose_other)
      [] k = 2 -> Blank(f.project_name)
      [] k = 3 -> Blank(f.project_location)
      [] k = 4 -> f.uploaded = NoUpload

\* the names of the fields of f not filled in, in the order of FieldNames
MissingNames(f) ==
    LET Name(k) == IF FieldMissing(f, k) THEN << FieldNames[k] >> ELSE <<>>
    IN  Name(1) \o Name(2) \o Name(3) \o Name(4)

\* all four fields of the submitted form f are filled in
AllPresent(f) == \A k \in 1..4 : ~FieldMissing(f, k)

\* C13: after an Apply on a form with a field missing, the generator was not
\* called in that run, the error line names exactly the missing fields in the
\* order Purpose, Project Name, Project Location, Template XLSX, and the
\* session holds no output: no bytes, no file name, no Download button.
MissingFieldsReported ==
    (Applied /\ ~AllPresent(app.inputs)) =>
        /\ ~app.called
        /\ app.message = "error"
        /\ app.text = <<"P", "l", "e", "a", "s", "e", " ", "f", "i", "l", "l", " ", "i", "n", ":", " ">> \o Join(MissingNames(app.inputs), <<",", " ">>)
        /\ app.xlsx_bytes = NoBytes
        /\ app.out_name = <<>>
        /\ ~app.download

\* an Apply with two fields missing, after an earlier Apply had generated output
MissingFieldsReportedSeen ==
    /\ Applied
    /\ app.made_sig # NoSig
    /\ app.text = <<"P", "l", "e", "a", "s", "e", " ", "f", "i", "l", "l", " ", "i", "n", ":", " ", "P", "r", "o", "j", "e", "c", "t", " ", "N", "a", "m", "e", ",", " ", "T", "e", "m", "p", "l", "a", "t", "e", " ", "X", "L", "S", "X">>
    /\ app.xlsx_bytes = NoBytes

\* this step is an Apply on a form with all four fields filled in
ValidApply == Applied' /\ AllPresent(app'.inputs)

\* the generator is invoked in an Apply exactly when all four fields are
\* present and the signature differs from that of the last Apply that generated
CalledIffChanged ==
    Applied' =>
        (app'.called <=>
            /\ AllPresent(app'.inputs)
            /\ inputs_sig(app'.inputs) # app.made_sig)

\* the stored signature changes only in an Apply whose generation returned,
\* and then to the signature of that Apply
StoredAfterReturn ==
    app'.last_inputs_sig # app.last_inputs_sig =>
        /\ ValidApply
        /\ app'.called
        /\ app'.message = "success"
        /\ app'.last_inputs_sig = inputs_sig(app'.inputs)
        /\ app'.made_sig = app'.last_inputs_sig

\* this step is the second of two consecutive valid Applies with the same signature
SameSigAgain ==
    /\ Applied
    /\ AllPresent(app.inputs)
    /\ ValidApply
    /\ inputs_sig(app'.inputs) = inputs_sig(app.inputs)

SuccessHoldsOutput ==
    (Applied /\ AllPresent(app.inputs) /\ app.message = "success") =>
        /\ app.xlsx_bytes.made
        /\ app.download
        /\ app.made_sig = inputs_sig(app.inputs)

---------------------------------------------------------------------------
(***************************************************************************)
(*      Weights & SAW: the rating lookup table and the option columns      *)
(***************************************************************************)

\* the cells of the rating lookup table: header row and five entries
LookupCells == (1..6) \X {map_col, map_col + 1}

\* the cells written per option: column header, NormScore rows, SAW Score,
\* Rank and Score (0-10)
OptionCells == (1..(4 + NAttr)) \X (5..(4 + tpl.n))

\* the lookup table reads as it was written
LookupIntact ==
    /\ At(wb.wsw, 1, map_col) = Text(<<"R", "a", "t", "i", "n", "g">>)
    /\ At(wb.wsw, 1, map_col + 1) = Text(<<"R", "a", "w">>)
    /\ \A r \in 2..6 :
          /\ At(wb.wsw, r, map_col) = Text(RatingMap[r - 1])
          /\ At(wb.wsw, r, map_col + 1) = Num(r - 1)

\* every option has its NormScore column header
OptionHeadersIntact ==
    \A j \in 1..tpl.n : At(wb.wsw, 1, 4 + j) = Caption("NormScore", j)

\* no NormScore formula sits inside a range it looks up
NoNormInsideLookup ==
    \A rc \in DOMAIN wb.wsw :
        wb.wsw[rc].k = "norm" =>
            /\ rc \notin RowsOf(wb.wsw[rc].keys) \X ColsOf(wb.wsw[rc].keys)
            /\ rc \notin RowsOf(wb.wsw[rc].vals) \X ColsOf(wb.wsw[rc].vals)

\* C16: for any number of options, also 8 or more, the rating lookup table
\* (columns 12-13, rows 1-6 of Weights & SAW) is disjoint from every option's
\* column header, NormScore, SAW Score, Rank and Score cell (columns
\* 5..4+options): no lookup cell and no header is overwritten, and no
\* NormScore formula lies inside the range it looks up.
LookupTableApart ==
    Made =>
        /\ OptionCells \cap LookupCells = {}
        /\ LookupIntact
        /\ OptionHeadersIntact
        /\ NoNormInsideLookup

=============================================================================
